---- MODULE Spec2Model ----
(***************************************************************************)
(* CloudSessionStorage (src/core/services/CloudSessionStorage.py): a       *)
(* session store that fans one session record out to an ordered registry   *)
(* of backends (stx cookie, legacy cookies, browser localStorage, a        *)
(* database table, st.session_state) and loads it back with fallthrough.   *)
(*                                                                         *)
(* Modelling conventions                                                   *)
(*  - a Python dict is a function whose DOMAIN is the set of its keys;     *)
(*    None is the empty sequence <<>> and a present value v is <<v>>;      *)
(*  - an instant (datetime) is a number of days; an isoformat string is    *)
(*    the instant it denotes, and a malformed string is a negative number; *)
(*  - a call into an external medium (cookie component, JS bridge,         *)
(*    database driver) may fail: every operation takes the set F of the    *)
(*    backends whose medium fails while it runs (exception or False).      *)
(***************************************************************************)
EXTENDS Integers, Sequences, FiniteSets, TLC

\* ------------------------------------------------------------ bounds
MaxTicks == 2
MaxSaves == 2
MaxFaultyOps == 1
MaxProbeTime == 3
MaxSharedSaves == 3
MaxDbSaves == 3
MaxDays == 2
MaxCalls == 3
Users == {"alice"}
Emails == {"a@icon.net"}
Roles == {"Admin"}

\* self.session_timeout = timedelta(days=7)
session_timeout == 7

\* ------------------------------------------------------------ dicts
EmptyDict == [k \in {} |-> ""]
Get(d, k, default) == IF k \in DOMAIN d THEN d[k] ELSE default
Put(d, k, v) == [j \in (DOMAIN d) \cup {k} |-> IF j = k THEN v ELSE d[j]]
Del(d, k) == [j \in (DOMAIN d) \ {k} |-> d[j]]
Range(s) == {s[i] : i \in 1..Len(s)}

None == <<>>
Some(v) == <<v>>

\* The seven keys of a session record, as save_session builds it.
SessionKeys ==
    {"username", "email", "role", "signout", "timestamp", "session_id", "expires_at"}

\* ------------------------------------------------------------ registry
AllMethods ==
    <<"stx_cookies", "legacy_cookies", "js_local_storage", "database", "session_state">>

\* The backends whose medium is outside the process and whose calls can fail.
Fallible == {"stx_cookies", "legacy_cookies", "js_local_storage", "database"}

\* _init_storage_mechanisms without its last, unconditional append.
init_storage_mechanisms_without_fallback(found) ==
    SelectSeq(AllMethods, LAMBDA m : m \in found)

\* _init_storage_mechanisms: the mediums found, in the fixed order, then
\* session_state unconditionally.
init_storage_mechanisms(found) ==
    SelectSeq(AllMethods, LAMBDA m : m \in found \/ m = "session_state")

VARIABLES
    available,            \* the mediums found at construction (HAS_* flags, db_pool)
    storage_methods,      \* self.storage_methods
    now,                  \* datetime.now(), in days
    stx_cookie,           \* the "<prefix>_session" cookie: None or Some([val, expires_at])
    legacy_cookies,       \* EncryptedCookieManager: key -> string ("" when unset)
    local_storage,        \* browser localStorage: None or Some([session, timestamp])
    cloud_user_sessions,  \* the database table: a set of rows
    session_state,        \* st.session_state: a dict
    next_id,              \* number of session ids generated so far
    last,                 \* the last operation and what it returned
    last_save,            \* the most recent save_session and whether it is still current
    faulty_ops,           \* operations so far in which some backend failed
    probe,                \* a record handed to _is_session_valid, the instant, the result
    scopes,               \* st.session_state of each process that shares the database
    cloud_session_storage \* the module global _cloud_session_storage: None or Some(instance)

vars == <<available, storage_methods, now, stx_cookie, legacy_cookies, local_storage,
          cloud_user_sessions, session_state, next_id, last, last_save, faulty_ops,
          probe, scopes, cloud_session_storage>>

\* The backends' contents as one value, threaded through the loops.
Stores ==
    [stx |-> stx_cookie, legacy |-> legacy_cookies, js |-> local_storage,
     db |-> cloud_user_sessions, ss |-> session_state]

\* ------------------------------------------------------------ codecs
\* base64.b64encode(json.dumps(session_data)) and its inverse: the payload
\* carries the dict; any other cookie value does not decode.
B64JsonEncode(session_data) == [b64json |-> session_data]
B64JsonDecodable(val) == DOMAIN val = {"b64json"}
B64JsonDecode(val) == val.b64json

\* json.dumps / JSON.stringify of a dict and the inverse; the text of any other
\* JSON value does not parse to a dict.
JsonDumps(session_data) == [json |-> session_data]
IsJsonObject(text) == DOMAIN text = {"json"}
JsonLoads(text) == text.json

\* str(value), as _save_legacy_cookies applies it to every field: a string
\* is None when empty and Some(text) otherwise; str(False) is "False".
PyStr(key, value) ==
    IF key = "signout" THEN Some(IF value THEN "True" ELSE "False")
    ELSE IF key \in {"timestamp", "expires_at"} THEN Some(value)
    ELSE IF value = "" THEN None ELSE Some(value)

\* datetime.fromisoformat raises ValueError on a malformed string.
WellFormedIso(s) == s >= 0

\* The instant datetime.now() returns when the n-th session id has been
\* generated on day t: microsecond readings of successive saves differ even
\* within one day, so a reading is the pair <<day, ordinal>>.
Stamp(t, n) == <<t, n>>
StampLeq(a, b) == a[1] < b[1] \/ (a[1] = b[1] /\ a[2] <= b[2])

\* ------------------------------------------------------------ lifecycle policy
\* _generate_session_id: sha256(username, timestamp, uuid4)[:32]; the uuid4
\* makes the n-th generated id different from every earlier one.
generate_session_id(username, n) == "sid" \o ToString(n)

\* _is_session_valid whose except branch lets the record through: an
\* expires_at that does not parse counts as no expiry.
is_session_valid_trusting_unparsed(session_data, t) ==
    IF DOMAIN session_data = {} \/ Get(session_data, "username", "") = "" THEN FALSE
    ELSE IF Get(session_data, "signout", TRUE) THEN FALSE
    ELSE IF "expires_at" \in DOMAIN session_data
              /\ WellFormedIso(session_data["expires_at"])
         THEN ~(t > session_data["expires_at"])
         ELSE TRUE

\* _is_session_valid without its expiration check.
is_session_valid_ignoring_expiry(session_data, t) ==
    /\ Get(session_data, "username", "") # ""
    /\ ~Get(session_data, "signout", TRUE)

\* _is_session_valid at instant t.
is_session_valid(session_data, t) ==
    IF DOMAIN session_data = {} \/ Get(session_data, "username", "") = "" THEN FALSE
    ELSE IF Get(session_data, "signout", TRUE) THEN FALSE
    ELSE IF "expires_at" \in DOMAIN session_data
         THEN IF ~WellFormedIso(session_data["expires_at"]) THEN FALSE
              ELSE ~(t > session_data["expires_at"])
         ELSE TRUE

\* ------------------------------------------------------------ session_state adapter
\* _save_session_state reading the flag under a key the record does not
\* have, so that signout takes its default.
save_session_state_default_signout(ss, session_data) ==
    LET a == Put(ss, "username", Get(session_data, "username", ""))
        b == Put(a, "useremail", Get(session_data, "email", ""))
        c == Put(b, "role", Get(session_data, "role", ""))
        d == Put(c, "signout", Get(session_data, "signed_out", TRUE))
    IN Put(d, "session_id", Get(session_data, "session_id", ""))

save_session_state(ss, session_data) ==
    LET a == Put(ss, "username", Get(session_data, "username", ""))
        b == Put(a, "useremail", Get(session_data, "email", ""))
        c == Put(b, "role", Get(session_data, "role", ""))
        d == Put(c, "signout", Get(session_data, "signout", TRUE))
    IN Put(d, "session_id", Get(session_data, "session_id", ""))

load_session_state(ss, t) ==
    IF Get(ss, "username", "") # "" /\ ~Get(ss, "signout", TRUE)
    THEN Some([username |-> ss["username"],
               email |-> Get(ss, "useremail", ""),
               role |-> Get(ss, "role", ""),
               signout |-> Get(ss, "signout", TRUE),
               session_id |-> Get(ss, "session_id", ""),
               timestamp |-> t,
               expires_at |-> t + session_timeout])
    ELSE None

\* _clear_session_state without the removal of session_id.
clear_session_state_keeping_id(ss) ==
    LET a == Put(ss, "username", "")
        b == Put(a, "useremail", "")
        c == Put(b, "role", "")
    IN Put(c, "signout", TRUE)

clear_session_state(ss) ==
    LET a == Put(ss, "username", "")
        b == Put(a, "useremail", "")
        c == Put(b, "role", "")
        d == Put(c, "signout", TRUE)
    IN Del(d, "session_id")

\* _update_session_state without its last assignment (session_id).
update_session_state_without_id(ss, session_data) ==
    LET a == Put(ss, "username", Get(session_data, "username", ""))
        b == Put(a, "useremail", Get(session_data, "email", ""))
        c == Put(b, "role", Get(session_data, "role", ""))
    IN Put(c, "signout", Get(session_data, "signout", TRUE))

\* _update_session_state
update_session_state(ss, session_data) ==
    LET a == Put(ss, "username", Get(session_data, "username", ""))
        b == Put(a, "useremail", Get(session_data, "email", ""))
        c == Put(b, "role", Get(session_data, "role", ""))
        d == Put(c, "signout", Get(session_data, "signout", TRUE))
    IN Put(d, "session_id", Get(session_data, "session_id", ""))

\* ------------------------------------------------------------ stx cookie adapter
\* Each adapter returns [S, ok]: the stores after the call and its result.
\* fail: the cookie component raises, caught inside the adapter.
save_stx_cookies(S, session_data, t, fail) ==
    IF fail THEN [S |-> S, ok |-> FALSE]
    ELSE [S |-> [S EXCEPT !.stx = Some([val |-> B64JsonEncode(session_data),
                                        expires_at |-> t + session_timeout])],
          ok |-> TRUE]

\* The browser keeps the cookie until its expires_at attribute has passed.
load_stx_cookies(S, t, fail) ==
    IF fail \/ S.stx = None THEN None
    ELSE IF t > S.stx[1].expires_at THEN None
    ELSE IF B64JsonDecodable(S.stx[1].val) THEN Some(B64JsonDecode(S.stx[1].val))
    ELSE None

clear_stx_cookies(S, fail) ==
    IF fail THEN [S |-> S, ok |-> FALSE]
    ELSE [S |-> [S EXCEPT !.stx = None], ok |-> TRUE]

\* ------------------------------------------------------------ legacy cookies adapter
\* fail: legacy_cookies.ready() is False, or the component raises.
save_legacy_cookies(S, session_data, fail) ==
    IF fail THEN [S |-> S, ok |-> FALSE]
    ELSE [S |-> [S EXCEPT !.legacy =
                    [k \in SessionKeys |->
                        IF k \in DOMAIN session_data
                        THEN PyStr(k, session_data[k]) ELSE S.legacy[k]]],
          ok |-> TRUE]

load_legacy_cookies(S, fail) ==
    IF fail THEN None
    ELSE LET present == {k \in SessionKeys : S.legacy[k] # None}
             raw == [k \in present |-> S.legacy[k][1]]
         IN IF "username" \in present
            THEN Some(Put(raw, "signout", Get(raw, "signout", "True") = "True"))
            ELSE None

clear_legacy_cookies(S, fail) ==
    IF fail THEN [S |-> S, ok |-> FALSE]
    ELSE [S |-> [S EXCEPT !.legacy = [k \in SessionKeys |-> None]], ok |-> TRUE]

\* ------------------------------------------------------------ localStorage adapter
\* fail: streamlit_js_eval raises or does not return true / a dict.
save_js_localStorage(S, session_data, t, fail) ==
    IF fail THEN [S |-> S, ok |-> FALSE]
    ELSE [S |-> [S EXCEPT !.js = Some([session |-> JsonDumps(session_data),
                                       timestamp |-> t])],
          ok |-> TRUE]

\* result if isinstance(result, dict) else None
load_js_localStorage(S, fail) ==
    IF fail \/ S.js = None THEN None
    ELSE IF IsJsonObject(S.js[1].session) THEN Some(JsonLoads(S.js[1].session))
    ELSE None

clear_js_localStorage(S, fail) ==
    IF fail THEN [S |-> S, ok |-> FALSE]
    ELSE [S |-> [S EXCEPT !.js = None], ok |-> TRUE]

\* ------------------------------------------------------------ database adapter
\* The columns _save_database reads with session_data[...]: a missing one is
\* a KeyError, a malformed expires_at a ValueError; both roll back.
DbSavable(session_data) ==
    /\ {"session_id", "username", "email", "role", "expires_at"} \subseteq DOMAIN session_data
    /\ WellFormedIso(session_data["expires_at"])

\* A plain INSERT into a table that has no key on session_id.
upsert_appending(rows, session_data, stamp) ==
    rows \cup {[session_id |-> session_data["session_id"],
                username |-> session_data["username"],
                email |-> session_data["email"],
                role |-> session_data["role"],
                created_at |-> stamp,
                expires_at |-> session_data["expires_at"],
                session_data |-> JsonDumps(session_data),
                last_accessed |-> stamp]}

\* INSERT ... ON CONFLICT (session_id) DO UPDATE SET expires_at, session_data,
\* last_accessed. stamp is the clock reading of the statement.
upsert(rows, session_data, stamp) ==
    IF \E row \in rows : row.session_id = session_data["session_id"]
    THEN {IF row.session_id = session_data["session_id"]
          THEN [row EXCEPT !.expires_at = session_data["expires_at"],
                           !.session_data = JsonDumps(session_data),
                           !.last_accessed = stamp]
          ELSE row : row \in rows}
    ELSE rows \cup {[session_id |-> session_data["session_id"],
                     username |-> session_data["username"],
                     email |-> session_data["email"],
                     role |-> session_data["role"],
                     created_at |-> stamp,
                     expires_at |-> session_data["expires_at"],
                     session_data |-> JsonDumps(session_data),
                     last_accessed |-> stamp]}

\* fail: getconn, execute or commit raises.
save_database(S, session_data, stamp, fail) ==
    IF fail \/ ~DbSavable(session_data) THEN [S |-> S, ok |-> FALSE]
    ELSE [S |-> [S EXCEPT !.db = upsert(S.db, session_data, stamp)], ok |-> TRUE]

\* _load_database with ORDER BY last_accessed ASC: the oldest matching row.
load_database_oldest(S, t, fail) ==
    LET username == Get(S.ss, "username", "")
        rows == {row \in S.db : row.username = username /\ row.expires_at > t}
    IN IF username = "" \/ fail \/ rows = {} THEN None
       ELSE LET top == CHOOSE row \in rows :
                          \A other \in rows : StampLeq(row.last_accessed, other.last_accessed)
            IN Some(JsonLoads(top.session_data))

\* SELECT ... WHERE username = %s AND expires_at > CURRENT_TIMESTAMP
\* ORDER BY last_accessed DESC LIMIT 1, for st.session_state's username.
load_database(S, t, fail) ==
    LET username == Get(S.ss, "username", "")
        rows == {row \in S.db : row.username = username /\ row.expires_at > t}
    IN IF username = "" \/ fail \/ rows = {} THEN None
       ELSE LET top == CHOOSE row \in rows :
                          \A other \in rows : StampLeq(other.last_accessed, row.last_accessed)
            IN Some(JsonLoads(top.session_data))

\* _clear_database with DELETE FROM cloud_user_sessions, no WHERE clause.
clear_database_every_row(S, username, fail) ==
    IF username = "" \/ fail THEN [S |-> S, ok |-> FALSE]
    ELSE [S |-> [S EXCEPT !.db = {}], ok |-> TRUE]

\* DELETE FROM cloud_user_sessions WHERE username = %s
clear_database(S, username, fail) ==
    IF username = "" \/ fail THEN [S |-> S, ok |-> FALSE]
    ELSE [S |-> [S EXCEPT !.db = {row \in S.db : row.username # username}], ok |-> TRUE]

\* ------------------------------------------------------------ session store
\* One iteration of save_session's loop: the method's save inside try/except.
\* acc = [S, success_count, attempted].
save_method(acc, method, session_data, t, n, F) ==
    LET fail == method \in F
        r == CASE method = "stx_cookies" ->
                    save_stx_cookies(acc.S, session_data, t, fail)
               [] method = "legacy_cookies" ->
                    save_legacy_cookies(acc.S, session_data, fail)
               [] method = "js_local_storage" ->
                    save_js_localStorage(acc.S, session_data, t, fail)
               [] method = "database" ->
                    save_database(acc.S, session_data, Stamp(t, n), fail)
               [] method = "session_state" ->
                    [S |-> [acc.S EXCEPT !.ss = save_session_state(acc.S.ss, session_data)],
                     ok |-> TRUE]
    IN [S |-> r.S,
        success_count |-> acc.success_count + (IF r.ok THEN 1 ELSE 0),
        attempted |-> Append(acc.attempted, method)]

\* save_session's loop without the per-method try/except: the first failing
\* method ends the loop.
RECURSIVE save_loop_stopping(_, _, _, _, _, _, _)
save_loop_stopping(methods, i, acc, session_data, t, n, F) ==
    IF i > Len(methods) \/ methods[i] \in F THEN acc
    ELSE save_loop_stopping(methods, i + 1,
                            save_method(acc, methods[i], session_data, t, n, F),
                            session_data, t, n, F)

\* for method in self.storage_methods: ...
RECURSIVE save_loop(_, _, _, _, _, _, _)
save_loop(methods, i, acc, session_data, t, n, F) ==
    IF i > Len(methods) THEN acc
    ELSE save_loop(methods, i + 1, save_method(acc, methods[i], session_data, t, n, F),
                   session_data, t, n, F)

\* save_session returning success_count == len(self.storage_methods).
save_session_requiring_all(S, methods, username, email, role, t, n, F) ==
    LET session_data == [username |-> username,
                         email |-> email,
                         role |-> role,
                         signout |-> FALSE,
                         timestamp |-> t,
                         session_id |-> generate_session_id(username, n),
                         expires_at |-> t + session_timeout]
        acc == save_loop(methods, 1, [S |-> S, success_count |-> 0, attempted |-> <<>>],
                         session_data, t, n, F)
    IN [S |-> acc.S, ret |-> acc.success_count = Len(methods), session_data |-> session_data,
        success_count |-> acc.success_count, attempted |-> acc.attempted]

\* save_session(username, email, role) at instant t, generating the n-th id.
save_session(S, methods, username, email, role, t, n, F) ==
    LET session_data == [username |-> username,
                         email |-> email,
                         role |-> role,
                         signout |-> FALSE,
                         timestamp |-> t,
                         session_id |-> generate_session_id(username, n),
                         expires_at |-> t + session_timeout]
        acc == save_loop(methods, 1, [S |-> S, success_count |-> 0, attempted |-> <<>>],
                         session_data, t, n, F)
    IN [S |-> acc.S, ret |-> acc.success_count > 0, session_data |-> session_data,
        success_count |-> acc.success_count, attempted |-> acc.attempted]

\* The adapter load_session calls for a method.
load_method(S, method, t, F) ==
    CASE method = "stx_cookies" -> load_stx_cookies(S, t, method \in F)
      [] method = "legacy_cookies" -> load_legacy_cookies(S, method \in F)
      [] method = "js_local_storage" -> load_js_localStorage(S, method \in F)
      [] method = "database" -> load_database(S, t, method \in F)
      [] method = "session_state" -> load_session_state(S.ss, t)

\* _resave_to_persistent_storage with "database" in its list of methods: the
\* record is upserted too, at a clock reading later than any save's.
resave_to_persistent_storage_and_database(S, methods, session_data, t, F) ==
    LET a == IF "stx_cookies" \in Range(methods)
             THEN save_stx_cookies(S, session_data, t, "stx_cookies" \in F).S ELSE S
        b == IF "legacy_cookies" \in Range(methods)
             THEN save_legacy_cookies(a, session_data, "legacy_cookies" \in F).S ELSE a
        c == IF "js_local_storage" \in Range(methods)
             THEN save_js_localStorage(b, session_data, t, "js_local_storage" \in F).S ELSE b
    IN IF "database" \in Range(methods)
       THEN save_database(c, session_data, Stamp(t, MaxSaves + 1), "database" \in F).S
       ELSE c

\* _resave_to_persistent_storage: the three client-side methods that are in
\* the registry, results ignored.
resave_to_persistent_storage(S, methods, session_data, t, F) ==
    LET a == IF "stx_cookies" \in Range(methods)
             THEN save_stx_cookies(S, session_data, t, "stx_cookies" \in F).S ELSE S
        b == IF "legacy_cookies" \in Range(methods)
             THEN save_legacy_cookies(a, session_data, "legacy_cookies" \in F).S ELSE a
    IN IF "js_local_storage" \in Range(methods)
       THEN save_js_localStorage(b, session_data, t, "js_local_storage" \in F).S ELSE b

\* What load_session does with a valid record found through `method`.
accept_session(S, methods, method, session_data, t, F) ==
    LET S1 == [S EXCEPT !.ss = update_session_state(S.ss, session_data)]
    IN IF method \in {"database", "session_state"}
       THEN resave_to_persistent_storage(S1, methods, session_data, t, F)
       ELSE S1

\* load_session's loop without the early return: the first valid record is
\* kept while the remaining methods are still read.
load_loop_consulting_all(methods, i, S, t, F, consulted) ==
    LET valid == {j \in i..Len(methods) :
                     /\ load_method(S, methods[j], t, F) # None
                     /\ is_session_valid(load_method(S, methods[j], t, F)[1], t)}
    IN IF valid = {}
       THEN [S |-> [S EXCEPT !.ss = clear_session_state(S.ss)],
             ret |-> None, src |-> "none", consulted |-> methods]
       ELSE LET j == CHOOSE j \in valid : \A k \in valid : j <= k
            IN [S |-> accept_session(S, methods, methods[j],
                                     load_method(S, methods[j], t, F)[1], t, F),
                ret |-> load_method(S, methods[j], t, F), src |-> methods[j],
                consulted |-> methods]

\* load_session at instant t.
RECURSIVE load_loop(_, _, _, _, _, _)
load_loop(methods, i, S, t, F, consulted) ==
    IF i > Len(methods)
    THEN [S |-> [S EXCEPT !.ss = clear_session_state(S.ss)],
          ret |-> None, src |-> "none", consulted |-> consulted]
    ELSE LET method == methods[i]
             session_data == load_method(S, method, t, F)
         IN IF session_data # None /\ is_session_valid(session_data[1], t)
            THEN [S |-> accept_session(S, methods, method, session_data[1], t, F),
                  ret |-> session_data, src |-> method,
                  consulted |-> Append(consulted, method)]
            ELSE load_loop(methods, i + 1, S, t, F, Append(consulted, method))

load_session(S, methods, t, F) == load_loop(methods, 1, S, t, F, <<>>)

\* One iteration of clear_session's loop.
clear_method(acc, method, username, F) ==
    LET fail == method \in F
        r == CASE method = "stx_cookies" -> clear_stx_cookies(acc.S, fail)
               [] method = "legacy_cookies" -> clear_legacy_cookies(acc.S, fail)
               [] method = "js_local_storage" -> clear_js_localStorage(acc.S, fail)
               [] method = "database" -> clear_database(acc.S, username, fail)
               [] method = "session_state" ->
                    [S |-> [acc.S EXCEPT !.ss = clear_session_state(acc.S.ss)], ok |-> TRUE]
    IN [S |-> r.S,
        success_count |-> acc.success_count + (IF r.ok THEN 1 ELSE 0),
        attempted |-> Append(acc.attempted, method)]

\* clear_session's loop without the per-method try/except: the first failing
\* method ends the loop.
RECURSIVE clear_loop_stopping(_, _, _, _, _)
clear_loop_stopping(methods, i, acc, username, F) ==
    IF i > Len(methods) \/ methods[i] \in F THEN acc
    ELSE clear_loop_stopping(methods, i + 1, clear_method(acc, methods[i], username, F),
                             username, F)

RECURSIVE clear_loop(_, _, _, _, _)
clear_loop(methods, i, acc, username, F) ==
    IF i > Len(methods) THEN acc
    ELSE clear_loop(methods, i + 1, clear_method(acc, methods[i], username, F), username, F)

\* clear_session without the fallback to st.session_state's username.
clear_session_without_scope_username(S, methods, username, F) ==
    LET acc == clear_loop(methods, 1, [S |-> S, success_count |-> 0, attempted |-> <<>>],
                          username, F)
    IN [S |-> acc.S, ret |-> acc.success_count > 0,
        success_count |-> acc.success_count, attempted |-> acc.attempted]

\* clear_session(username): username "" stands for None.
clear_session(S, methods, username, F) ==
    LET name == IF username # "" THEN username ELSE Get(S.ss, "username", "")
        acc == clear_loop(methods, 1, [S |-> S, success_count |-> 0, attempted |-> <<>>],
                          name, F)
    IN [S |-> acc.S, ret |-> acc.success_count > 0,
        success_count |-> acc.success_count, attempted |-> acc.attempted]

\* is_user_authenticated that always goes to storage, without the quick check.
is_user_authenticated_always_loading(S, methods, t, F) ==
    LET r == load_session(S, methods, t, F)
    IN [S |-> r.S, ret |-> r.ret # None, loaded |-> TRUE]

\* is_user_authenticated at instant t: the quick check of st.session_state,
\* else a load_session.
is_user_authenticated(S, methods, t, F) ==
    IF Get(S.ss, "username", "") # "" /\ ~Get(S.ss, "signout", TRUE)
    THEN [S |-> S, ret |-> TRUE, loaded |-> FALSE]
    ELSE LET r == load_session(S, methods, t, F)
         IN [S |-> r.S, ret |-> r.ret # None, loaded |-> TRUE]

\* cleanup_expired_sessions with DELETE ... WHERE expires_at <= CURRENT_TIMESTAMP.
cleanup_expired_sessions_at_or_before(S, methods, t, fail) ==
    IF "database" \notin Range(methods) \/ fail THEN [S |-> S, deleted_count |-> 0]
    ELSE [S |-> [S EXCEPT !.db = {row \in S.db : ~(row.expires_at <= t)}],
          deleted_count |-> Cardinality({row \in S.db : row.expires_at <= t})]

\* cleanup_expired_sessions at instant t: DELETE FROM cloud_user_sessions
\* WHERE expires_at < CURRENT_TIMESTAMP; a driver failure rolls back.
cleanup_expired_sessions(S, methods, t, fail) ==
    IF "database" \notin Range(methods) \/ fail THEN [S |-> S, deleted_count |-> 0]
    ELSE [S |-> [S EXCEPT !.db = {row \in S.db : ~(row.expires_at < t)}],
          deleted_count |-> Cardinality({row \in S.db : row.expires_at < t})]

\* ------------------------------------------------------------ state machine
\* The failure sets an operation may meet: any set of the registry's external
\* backends, in at most MaxFaultyOps operations of a run.
Failures ==
    IF faulty_ops < MaxFaultyOps
    THEN SUBSET (Fallible \cap Range(storage_methods)) ELSE {{}}

Faulty(F) == faulty_ops' = faulty_ops + (IF F = {} THEN 0 ELSE 1)

SetStores(S) ==
    /\ stx_cookie' = S.stx
    /\ legacy_cookies' = S.legacy
    /\ local_storage' = S.js
    /\ cloud_user_sessions' = S.db
    /\ session_state' = S.ss

\* What the next operation remembers of the one before it.
Prev ==
    IF last.op = "save" THEN "save"
    ELSE IF last.op = "clear" THEN (IF last.full THEN "clear_full" ELSE "clear")
    ELSE "other"

\* The summary of an operation that returns nothing.
Idle(op) ==
    [op |-> op, ok |-> FALSE, ret |-> None, src |-> "none", full |-> FALSE,
     attempted |-> <<>>, after |-> Prev]

NoProbe == [session_data |-> EmptyDict, t |-> 0, result |-> None]

InitStore(found) ==
    /\ available = found
    /\ storage_methods = init_storage_mechanisms(found)
    /\ now = 0
    /\ stx_cookie = None
    /\ legacy_cookies = [k \in SessionKeys |-> None]
    /\ local_storage = None
    /\ cloud_user_sessions = {}
    /\ session_state = EmptyDict
    /\ next_id = 0
    /\ last = [op |-> "init", ok |-> FALSE, ret |-> None, src |-> "none", full |-> FALSE,
               attempted |-> <<>>, after |-> "other"]
    /\ last_save = [rec |-> None, args |-> <<>>, full |-> FALSE, current |-> FALSE,
                    before |-> None]
    /\ faulty_ops = 0
    /\ scopes = <<>>
    /\ cloud_session_storage = None

Init ==
    /\ \E found \in SUBSET Fallible : InitStore(found)
    /\ probe = NoProbe

\* last.full, of a save or a clear: every backend's call succeeded
\* (success_count = len(storage_methods)).
SaveSessionOp(username, email, role, F) ==
    LET r == save_session(Stores, storage_methods, username, email, role,
                          now, next_id + 1, F)
    IN /\ next_id < MaxSaves
       /\ SetStores(r.S)
       /\ next_id' = next_id + 1
       /\ last' = [op |-> "save", ok |-> r.ret, ret |-> None, src |-> "none",
                   full |-> r.success_count = Len(storage_methods),
                   attempted |-> r.attempted, after |-> Prev]
       /\ last_save' = [rec |-> Some(r.session_data),
                        args |-> <<username, email, role>>,
                        full |-> r.success_count = Len(storage_methods),
                        current |-> TRUE,
                        before |-> IF last.op = "save" THEN last_save.rec ELSE None]
       /\ Faulty(F)
       /\ UNCHANGED <<available, cloud_session_storage, scopes, storage_methods, now,
                      probe>>

SaveSession ==
    \E username \in Users, email \in Emails, role \in Roles, F \in Failures :
        SaveSessionOp(username, email, role, F)

LoadSessionOp(F) ==
    LET r == load_session(Stores, storage_methods, now, F)
    IN /\ SetStores(r.S)
       /\ last' = [op |-> "load", ok |-> r.ret # None, ret |-> r.ret, src |-> r.src,
                   full |-> FALSE, attempted |-> r.consulted, after |-> Prev]
       /\ Faulty(F)
       /\ UNCHANGED <<available, cloud_session_storage, scopes, storage_methods, now,
                      next_id, last_save, probe>>

LoadSession == \E F \in Failures : LoadSessionOp(F)

ClearSessionOp(username, F) ==
    LET r == clear_session(Stores, storage_methods, username, F)
    IN /\ SetStores(r.S)
       /\ last' = [op |-> "clear", ok |-> r.ret, ret |-> None, src |-> "none",
                   full |-> r.success_count = Len(storage_methods),
                   attempted |-> r.attempted, after |-> Prev]
       /\ last_save' = [last_save EXCEPT !.current = FALSE]
       /\ Faulty(F)
       /\ UNCHANGED <<available, cloud_session_storage, scopes, storage_methods, now,
                      next_id, probe>>

ClearSession ==
    \E username \in Users \cup {""}, F \in Failures : ClearSessionOp(username, F)

\* is_user_authenticated(): a medium can fail only when the call goes to storage.
IsUserAuthenticatedOp(F) ==
    LET r == is_user_authenticated(Stores, storage_methods, now, F)
    IN /\ r.loaded \/ F = {}
       /\ SetStores(r.S)
       /\ last' = [Idle("auth") EXCEPT !.ok = r.ret, !.full = r.loaded]
       /\ Faulty(F)
       /\ UNCHANGED <<available, cloud_session_storage, scopes, storage_methods, now,
                      next_id, last_save, probe>>

IsUserAuthenticated == \E F \in Failures : IsUserAuthenticatedOp(F)

\* cleanup_expired_sessions(), called by a scheduler; last.ok: rows were deleted.
CleanupExpiredSessionsOp(F) ==
    LET r == cleanup_expired_sessions(Stores, storage_methods, now, "database" \in F)
    IN /\ SetStores(r.S)
       /\ last' = [Idle("cleanup") EXCEPT !.ok = r.deleted_count > 0]
       /\ Faulty(F)
       /\ UNCHANGED <<available, cloud_session_storage, scopes, storage_methods, now,
                      next_id, last_save, probe>>

CleanupExpiredSessions ==
    \E F \in Failures \cap SUBSET {"database"} : CleanupExpiredSessionsOp(F)

\* The hosting runtime tears the in-process scope down: st.session_state is
\* empty again, every .get() returns its default.
ResetSessionState ==
    /\ session_state' = EmptyDict
    /\ last' = Idle("idle")
    /\ UNCHANGED <<available, cloud_session_storage, scopes, storage_methods, now,
                   stx_cookie, legacy_cookies, local_storage, cloud_user_sessions,
                   next_id, last_save, faulty_ops, probe>>

\* Time passes between two operations, one session_timeout at a time: an
\* instant is before, at, or after the expiry of a record saved on the grid.
Tick ==
    /\ now + session_timeout <= MaxTicks * session_timeout
    /\ now' = now + session_timeout
    /\ last' = Idle("idle")
    /\ UNCHANGED <<available, cloud_session_storage, scopes, storage_methods,
                   stx_cookie, legacy_cookies, local_storage, cloud_user_sessions,
                   session_state, next_id, last_save, faulty_ops, probe>>

Next ==
    \/ SaveSession
    \/ LoadSession
    \/ ClearSession
    \/ IsUserAuthenticated
    \/ CleanupExpiredSessions
    \/ ResetSessionState
    \/ Tick

Spec == Init /\ [][Next]_vars

\* ------------------------------------------------------------ _is_session_valid alone
\* The records handed to _is_session_valid: each of username, signout and
\* expires_at absent or present, expires_at possibly malformed (-1).
ProbeUsernames == {"", "alice"}
ProbeExpiries == (0 - 1)..MaxProbeTime

ProbeRecords ==
    {[k \in K |-> x[k]] :
        K \in SUBSET {"username", "signout", "expires_at"},
        x \in [username : ProbeUsernames, signout : BOOLEAN, expires_at : ProbeExpiries]}

InitValid ==
    /\ InitStore({})
    /\ \E session_data \in ProbeRecords, t \in 0..MaxProbeTime :
          probe = [session_data |-> session_data, t |-> t, result |-> None]

\* self._is_session_valid(session_data) with datetime.now() = probe.t
CallIsSessionValid ==
    /\ probe.result = None
    /\ probe' = [probe EXCEPT !.result = Some(is_session_valid(probe.session_data, probe.t))]
    /\ UNCHANGED <<available, cloud_session_storage, scopes, storage_methods, now,
                   stx_cookie, legacy_cookies, local_storage, cloud_user_sessions,
                   session_state, next_id, last, last_save, faulty_ops>>

NextValid == CallIsSessionValid

SpecValid == InitValid /\ [][NextValid]_vars

\* ------------------------------------------------------------ stored payloads
\* load_session over backends whose contents were written outside the store:
\* a well-formed record, an undecodable cookie, a localStorage value that is
\* not a dict, a record whose expires_at does not parse.
GoodRecord ==
    [username |-> "alice", email |-> "a@icon.net", role |-> "Admin", signout |-> FALSE,
     timestamp |-> 0, session_id |-> "sid1", expires_at |-> session_timeout]
BadExpiryRecord == [GoodRecord EXCEPT !["expires_at"] = 0 - 1]

StoredRow(session_data) ==
    [session_id |-> session_data["session_id"], username |-> session_data["username"],
     email |-> session_data["email"], role |-> session_data["role"],
     created_at |-> Stamp(0, 1), expires_at |-> session_timeout,
     session_data |-> JsonDumps(session_data), last_accessed |-> Stamp(0, 1)]

StoredStx ==
    {None,
     Some([val |-> B64JsonEncode(GoodRecord), expires_at |-> session_timeout]),
     Some([val |-> [garbled |-> "%%%"], expires_at |-> session_timeout]),
     Some([val |-> B64JsonEncode(BadExpiryRecord), expires_at |-> session_timeout])}
StoredJs ==
    {None,
     Some([session |-> JsonDumps(GoodRecord), timestamp |-> 0]),
     Some([session |-> [scalar |-> "42"], timestamp |-> 0]),
     Some([session |-> JsonDumps(BadExpiryRecord), timestamp |-> 0])}
StoredLegacy ==
    {[k \in SessionKeys |-> None],
     [k \in SessionKeys |-> PyStr(k, GoodRecord[k])],
     [k \in SessionKeys |-> PyStr(k, BadExpiryRecord[k])]}
StoredDb == {{}, {StoredRow(GoodRecord)}, {StoredRow(BadExpiryRecord)}}
StoredScope == {EmptyDict, save_session_state(EmptyDict, GoodRecord)}

InitStored ==
    /\ \E found \in SUBSET Fallible :
          /\ available = found
          /\ storage_methods = init_storage_mechanisms(found)
    /\ now = 0
    /\ stx_cookie \in StoredStx
    /\ legacy_cookies \in StoredLegacy
    /\ local_storage \in StoredJs
    /\ cloud_user_sessions \in StoredDb
    /\ session_state \in StoredScope
    /\ next_id = 0
    /\ last = [op |-> "init", ok |-> FALSE, ret |-> None, src |-> "none", full |-> FALSE,
               attempted |-> <<>>, after |-> "other"]
    /\ last_save = [rec |-> None, args |-> <<>>, full |-> FALSE, current |-> FALSE,
                    before |-> None]
    /\ faulty_ops = 0
    /\ scopes = <<>>
    /\ cloud_session_storage = None
    /\ probe = NoProbe

\* One load_session over the stored contents, every medium answering.
LoadStored == last.op = "init" /\ LoadSessionOp({})

NextStored == LoadStored

SpecStored == InitStored /\ [][NextStored]_vars

\* ------------------------------------------------------------ adapter round trips
\* One adapter's save followed by the same adapter's load, on a fresh store
\* with every medium available, at instant probe.t.
RoundTripRecords ==
    {[username |-> "alice", email |-> email, role |-> "Admin", signout |-> FALSE,
      timestamp |-> issued, session_id |-> "sid1", expires_at |-> issued + session_timeout] :
        email \in Emails \cup {""}, issued \in 0..1}

InitRoundTrip ==
    /\ InitStore(Fallible)
    /\ \E session_data \in RoundTripRecords, t \in 0..MaxProbeTime,
          method \in Range(AllMethods) :
          probe = [session_data |-> session_data, t |-> t, method |-> method,
                   result |-> None]

SaveThenLoadThrough ==
    LET saved == save_method([S |-> Stores, success_count |-> 0, attempted |-> <<>>],
                             probe.method, probe.session_data, probe.t, 1, {})
    IN /\ probe.result = None
       /\ SetStores(saved.S)
       /\ probe' = [probe EXCEPT
                       !.result = Some(load_method(saved.S, probe.method, probe.t, {}))]
       /\ UNCHANGED <<available, cloud_session_storage, scopes, storage_methods, now,
                      next_id, last, last_save, faulty_ops>>

NextRoundTrip == SaveThenLoadThrough

SpecRoundTrip == InitRoundTrip /\ [][NextRoundTrip]_vars

\* ------------------------------------------------------------ after failed saves
\* The store after two save_session calls of which some backends' saves
\* failed: a client-side backend holds the first record or nothing, the
\* database holds the rows of the saves that reached it, st.session_state holds
\* the second login. Then load_session calls over the following days, one of
\* which may meet failing mediums.
StaleRecord == GoodRecord
FreshRecord == [GoodRecord EXCEPT !["session_id"] = "sid2"]
FreshRow ==
    [StoredRow(FreshRecord) EXCEPT !.created_at = Stamp(0, 2), !.last_accessed = Stamp(0, 2)]

InitStale ==
    /\ \E found \in SUBSET Fallible :
          /\ available = found
          /\ storage_methods = init_storage_mechanisms(found)
    /\ now = 0
    /\ stx_cookie \in {None, Some([val |-> B64JsonEncode(StaleRecord),
                                   expires_at |-> session_timeout])}
    /\ legacy_cookies \in {[k \in SessionKeys |-> None],
                           [k \in SessionKeys |-> PyStr(k, StaleRecord[k])]}
    /\ local_storage \in {None, Some([session |-> JsonDumps(StaleRecord), timestamp |-> 0])}
    /\ cloud_user_sessions \in
          {{}, {StoredRow(StaleRecord)}, {FreshRow}, {StoredRow(StaleRecord), FreshRow}}
    /\ "stx_cookies" \notin available => stx_cookie = None
    /\ "legacy_cookies" \notin available => legacy_cookies = [k \in SessionKeys |-> None]
    /\ "js_local_storage" \notin available => local_storage = None
    /\ "database" \notin available => cloud_user_sessions = {}
    /\ session_state = save_session_state(EmptyDict, FreshRecord)
    /\ next_id = 2
    /\ last = [op |-> "init", ok |-> FALSE, ret |-> None, src |-> "none", full |-> FALSE,
               attempted |-> <<>>, after |-> "other"]
    /\ last_save = [rec |-> Some(FreshRecord), args |-> <<"alice", "a@icon.net", "Admin">>,
                    full |-> FALSE, current |-> TRUE, before |-> Some(StaleRecord)]
    /\ faulty_ops = 0
    /\ scopes = <<>>
    /\ cloud_session_storage = None
    /\ probe = NoProbe

\* A day passes: an instant inside the lifetime of the records.
NextDay ==
    /\ now < MaxDays
    /\ now' = now + 1
    /\ last' = Idle("idle")
    /\ UNCHANGED <<available, cloud_session_storage, scopes, storage_methods,
                   stx_cookie, legacy_cookies, local_storage, cloud_user_sessions,
                   session_state, next_id, last_save, faulty_ops, probe>>

NextStale == LoadSession \/ NextDay

SpecStale == InitStale /\ [][NextStale]_vars

\* ------------------------------------------------------------ a shared database
\* One process per user, each with its own st.session_state and a registry
\* [database, session_state], all on the same cloud_user_sessions table. Each
\* operation issues one statement in one transaction, so operations of
\* different processes interleave as wholes. A session id is unique across
\* processes (uuid4): next_id counts the ids generated by all of them.
SharedUsers == {"alice", "bob"}

ProcessStores(u) == [Stores EXCEPT !.ss = scopes[u]]

InitShared ==
    /\ available = {"database"}
    /\ storage_methods = init_storage_mechanisms({"database"})
    /\ now = 0
    /\ stx_cookie = None
    /\ legacy_cookies = [k \in SessionKeys |-> None]
    /\ local_storage = None
    /\ cloud_user_sessions = {}
    /\ session_state = EmptyDict
    /\ next_id = 0
    /\ last = [op |-> "init", user |-> "", ok |-> FALSE, deleted |-> 0]
    /\ last_save = [rec |-> None, args |-> <<>>, full |-> FALSE, current |-> FALSE,
                    before |-> None]
    /\ faulty_ops = 0
    /\ probe = NoProbe
    /\ scopes = [u \in SharedUsers |-> EmptyDict]
    /\ cloud_session_storage = None

\* What a process's operation leaves: the table, and its own st.session_state.
SetShared(u, S) ==
    /\ cloud_user_sessions' = S.db
    /\ scopes' = [scopes EXCEPT ![u] = S.ss]
    /\ UNCHANGED <<available, cloud_session_storage, storage_methods, now, stx_cookie,
                   legacy_cookies, local_storage, session_state, last_save, probe>>

Deleted(S) == Cardinality(cloud_user_sessions \ S.db)

\* save_session(u, email, role) in u's process.
SharedSaveSessionOp(u, email, role, F) ==
    LET r == save_session(ProcessStores(u), storage_methods, u, email, role,
                          now, next_id + 1, F)
    IN /\ next_id < MaxSharedSaves
       /\ SetShared(u, r.S)
       /\ next_id' = next_id + 1
       /\ last' = [op |-> "save", user |-> u, ok |-> r.ret, deleted |-> Deleted(r.S)]
       /\ Faulty(F)

SharedSaveSession ==
    \E u \in SharedUsers, email \in Emails, role \in Roles, F \in Failures :
        SharedSaveSessionOp(u, email, role, F)

\* clear_session(username) in u's process, username u or None ("").
SharedClearSessionOp(u, username, F) ==
    LET r == clear_session(ProcessStores(u), storage_methods, username, F)
    IN /\ SetShared(u, r.S)
       /\ last' = [op |-> "clear", user |-> u, ok |-> r.ret, deleted |-> Deleted(r.S)]
       /\ Faulty(F)
       /\ UNCHANGED next_id

SharedClearSession ==
    \E u \in SharedUsers, F \in Failures :
        \E username \in {u, ""} : SharedClearSessionOp(u, username, F)

\* cleanup_expired_sessions() in u's process.
SharedCleanupOp(u, F) ==
    LET r == cleanup_expired_sessions(ProcessStores(u), storage_methods, now,
                                      "database" \in F)
    IN /\ SetShared(u, r.S)
       /\ last' = [op |-> "cleanup", user |-> u, ok |-> r.deleted_count > 0,
                   deleted |-> Deleted(r.S)]
       /\ Faulty(F)
       /\ UNCHANGED next_id

SharedCleanup == \E u \in SharedUsers, F \in Failures : SharedCleanupOp(u, F)

SharedTick ==
    /\ now + session_timeout <= MaxTicks * session_timeout
    /\ now' = now + session_timeout
    /\ last' = [op |-> "idle", user |-> "", ok |-> FALSE, deleted |-> 0]
    /\ UNCHANGED <<available, cloud_session_storage, scopes, storage_methods,
                   stx_cookie, legacy_cookies, local_storage, cloud_user_sessions,
                   session_state, next_id, last_save, faulty_ops, probe>>

NextShared ==
    \/ SharedSaveSession
    \/ SharedClearSession
    \/ SharedCleanup
    \/ SharedTick

SpecShared == InitShared /\ [][NextShared]_vars

\* ------------------------------------------------------------ _save_database replayed
\* _save_database called up to MaxDbSaves times with the same record, at
\* successive clock readings, on a table that holds rows of earlier saves;
\* a call may meet a failing driver. probe.once is the table as the first
\* successful call left it.
InitUpsert ==
    /\ available = {"database"}
    /\ storage_methods = init_storage_mechanisms({"database"})
    /\ now = 0
    /\ stx_cookie = None
    /\ legacy_cookies = [k \in SessionKeys |-> None]
    /\ local_storage = None
    /\ cloud_user_sessions \in
          {{}, {StoredRow(StaleRecord)}, {FreshRow}, {StoredRow(StaleRecord), FreshRow}}
    /\ session_state = EmptyDict
    /\ next_id = 2
    /\ last = [op |-> "init", ok |-> FALSE, ret |-> None, src |-> "none", full |-> FALSE,
               attempted |-> <<>>, after |-> "other"]
    /\ last_save = [rec |-> None, args |-> <<>>, full |-> FALSE, current |-> FALSE,
                    before |-> None]
    /\ faulty_ops = 0
    /\ scopes = <<>>
    /\ cloud_session_storage = None
    /\ \E session_data \in {StaleRecord, FreshRecord, BadExpiryRecord} :
          probe = [session_data |-> session_data, t |-> 0, result |-> None,
                   calls |-> 0, once |-> None]

\* self._save_database(probe.session_data)
SaveDatabase ==
    \E fail \in BOOLEAN :
        LET r == save_database(Stores, probe.session_data,
                               Stamp(now, next_id + probe.calls + 1), fail)
        IN /\ probe.calls < MaxDbSaves
           /\ cloud_user_sessions' = r.S.db
           /\ probe' = [probe EXCEPT
                           !.calls = @ + 1,
                           !.result = Some(r.ok),
                           !.once = IF @ = None /\ r.ok THEN Some(r.S.db) ELSE @]
           /\ UNCHANGED <<available, cloud_session_storage, scopes, storage_methods,
                          now, stx_cookie, legacy_cookies, local_storage,
                          session_state, next_id, last, last_save, faulty_ops>>

NextUpsert == SaveDatabase \/ Tick

SpecUpsert == InitUpsert /\ [][NextUpsert]_vars

\* ------------------------------------------------------------ pooled connections
\* The four database operations as sequences of driver calls, one of which may
\* raise: fail_at names the call of the try block that raises ("none": no
\* call does), handler_fail_at the call of the except block that raises.
\* The result is whether a connection was taken from the pool and how many
\* times putconn was called on it.
\*
\* The except block: if 'conn' in locals(): try: [conn.rollback();]
\* cursor.close(); self.db_pool.putconn(conn) except: pass. cursor.close()
\* raises when cursor was never bound.
except_handler(has_cursor, with_rollback, handler_fail_at, putconn_calls) ==
    IF with_rollback /\ handler_fail_at = "rollback" THEN putconn_calls
    ELSE IF ~has_cursor \/ handler_fail_at = "close" THEN putconn_calls
    ELSE putconn_calls + 1

\* _save_database, _clear_database and cleanup_expired_sessions: getconn,
\* cursor, execute, commit, cursor.close, putconn; rollback in the handler.
write_database_conn(fail_at, handler_fail_at) ==
    CASE fail_at = "none" -> [taken |-> TRUE, putconn_calls |-> 1]
      [] fail_at = "getconn" -> [taken |-> FALSE, putconn_calls |-> 0]
      [] fail_at = "cursor" ->
            [taken |-> TRUE,
             putconn_calls |-> except_handler(FALSE, TRUE, handler_fail_at, 0)]
      [] fail_at \in {"execute", "commit", "close"} ->
            [taken |-> TRUE,
             putconn_calls |-> except_handler(TRUE, TRUE, handler_fail_at, 0)]
      [] fail_at = "putconn" ->
            [taken |-> TRUE,
             putconn_calls |-> except_handler(TRUE, TRUE, handler_fail_at, 1)]

\* _load_database: getconn, cursor, execute/fetchone, cursor.close, putconn,
\* then json.loads of the row ("decode"); no rollback in the handler.
load_database_conn(fail_at, handler_fail_at) ==
    CASE fail_at = "none" -> [taken |-> TRUE, putconn_calls |-> 1]
      [] fail_at = "getconn" -> [taken |-> FALSE, putconn_calls |-> 0]
      [] fail_at = "cursor" ->
            [taken |-> TRUE,
             putconn_calls |-> except_handler(FALSE, FALSE, handler_fail_at, 0)]
      [] fail_at \in {"execute", "close"} ->
            [taken |-> TRUE,
             putconn_calls |-> except_handler(TRUE, FALSE, handler_fail_at, 0)]
      [] fail_at \in {"putconn", "decode"} ->
            [taken |-> TRUE,
             putconn_calls |-> except_handler(TRUE, FALSE, handler_fail_at, 1)]

DatabaseOperations ==
    {"_save_database", "_load_database", "_clear_database", "cleanup_expired_sessions"}

\* The calls of an operation's try block that can raise, and of its handler.
FailPoints(op) ==
    IF op = "_load_database"
    THEN {"none", "getconn", "cursor", "execute", "close", "putconn", "decode"}
    ELSE {"none", "getconn", "cursor", "execute", "commit", "close", "putconn"}
HandlerFailPoints(op, fail_at) ==
    IF fail_at \in {"none", "getconn"} THEN {"none"}
    ELSE IF op = "_load_database" THEN {"none", "close"}
    ELSE {"none", "rollback", "close"}

InitPool ==
    /\ InitStore({"database"})
    /\ \E op \in DatabaseOperations :
          \E fail_at \in FailPoints(op) :
             \E handler_fail_at \in HandlerFailPoints(op, fail_at) :
                probe = [op |-> op, fail_at |-> fail_at,
                         handler_fail_at |-> handler_fail_at, result |-> None]

\* One call of the operation, on a store with a db_pool.
CallDatabaseOperation ==
    /\ probe.result = None
    /\ probe' = [probe EXCEPT !.result =
                    Some(IF probe.op = "_load_database"
                         THEN load_database_conn(probe.fail_at, probe.handler_fail_at)
                         ELSE write_database_conn(probe.fail_at, probe.handler_fail_at))]
    /\ UNCHANGED <<available, cloud_session_storage, scopes, storage_methods, now,
                   stx_cookie, legacy_cookies, local_storage, cloud_user_sessions,
                   session_state, next_id, last, last_save, faulty_ops>>

NextPool == CallDatabaseOperation

SpecPool == InitPool /\ [][NextPool]_vars

\* ------------------------------------------------------------ clear_session()
\* clear_session called without a username, on a store whose backends hold
\* alice's record or nothing, whose table may also hold a row of another
\* user, and whose st.session_state holds alice's login, is blank, or is empty.
OtherUsersRow ==
    StoredRow([GoodRecord EXCEPT !["username"] = "bob", !["session_id"] = "sid3"])

InitClear ==
    /\ \E found \in SUBSET Fallible :
          /\ available = found
          /\ storage_methods = init_storage_mechanisms(found)
    /\ now = 0
    /\ stx_cookie \in {None, Some([val |-> B64JsonEncode(GoodRecord),
                                   expires_at |-> session_timeout])}
    /\ legacy_cookies \in {[k \in SessionKeys |-> None],
                           [k \in SessionKeys |-> PyStr(k, GoodRecord[k])]}
    /\ local_storage \in {None, Some([session |-> JsonDumps(GoodRecord), timestamp |-> 0])}
    /\ cloud_user_sessions \in
          {{}, {StoredRow(GoodRecord)}, {StoredRow(GoodRecord), OtherUsersRow}}
    /\ "stx_cookies" \notin available => stx_cookie = None
    /\ "legacy_cookies" \notin available => legacy_cookies = [k \in SessionKeys |-> None]
    /\ "js_local_storage" \notin available => local_storage = None
    /\ "database" \notin available => cloud_user_sessions = {}
    /\ session_state \in {EmptyDict,
                          save_session_state(EmptyDict, GoodRecord),
                          clear_session_state(save_session_state(EmptyDict, GoodRecord))}
    /\ next_id = 1
    /\ last = [op |-> "init", ok |-> FALSE, ret |-> None, src |-> "none", full |-> FALSE,
               attempted |-> <<>>, after |-> "other"]
    /\ last_save = [rec |-> Some(GoodRecord), args |-> <<"alice", "a@icon.net", "Admin">>,
                    full |-> FALSE, current |-> TRUE, before |-> None]
    /\ faulty_ops = 0
    /\ scopes = <<>>
    /\ cloud_session_storage = None
    /\ probe = NoProbe

\* self.clear_session()
ClearWithoutUsername == last.op = "init" /\ \E F \in Failures : ClearSessionOp("", F)

NextClear == ClearWithoutUsername

SpecClear == InitClear /\ [][NextClear]_vars

\* ------------------------------------------------------------ the global instance
\* get_cloud_session_storage(db_pool, app_prefix), called up to MaxCalls
\* times in one process. `available` holds the client-side mediums the
\* imports found (HAS_* flags); an instance is the arguments it was built
\* with, its registry, and the ordinal of its construction.
AppPrefixes == {"iconnet_app", "other_app"}

\* CloudSessionStorage(db_pool, app_prefix), the serial-th instance built.
CloudSessionStorage(flags, db_pool, app_prefix, serial) ==
    [db_pool |-> db_pool,
     app_prefix |-> app_prefix,
     storage_methods |->
         init_storage_mechanisms(flags \cup (IF db_pool THEN {"database"} ELSE {})),
     serial |-> serial]

\* get_cloud_session_storage without the `is None` test: every call builds.
get_cloud_session_storage_rebuilding(global, flags, db_pool, app_prefix) ==
    Some(CloudSessionStorage(flags, db_pool, app_prefix,
                             IF global = None THEN 1 ELSE global[1].serial + 1))

\* get_cloud_session_storage: the value of the global after the call, which
\* is also what the call returns.
get_cloud_session_storage(global, flags, db_pool, app_prefix) ==
    IF global = None
    THEN Some(CloudSessionStorage(flags, db_pool, app_prefix, 1))
    ELSE global

InitSingleton ==
    /\ \E flags \in SUBSET (Fallible \ {"database"}) : available = flags
    /\ storage_methods = <<>>
    /\ now = 0
    /\ stx_cookie = None
    /\ legacy_cookies = [k \in SessionKeys |-> None]
    /\ local_storage = None
    /\ cloud_user_sessions = {}
    /\ session_state = EmptyDict
    /\ next_id = 0
    /\ last = [op |-> "init", ok |-> FALSE, ret |-> None, src |-> "none", full |-> FALSE,
               attempted |-> <<>>, after |-> "other"]
    /\ last_save = [rec |-> None, args |-> <<>>, full |-> FALSE, current |-> FALSE,
                    before |-> None]
    /\ faulty_ops = 0
    /\ scopes = <<>>
    /\ cloud_session_storage = None
    /\ probe = [calls |-> 0, args |-> <<>>, first_args |-> <<>>, result |-> None,
                first_result |-> None]

\* One call; probe keeps its arguments and result, and those of the first call.
GetCloudSessionStorage ==
    \E db_pool \in BOOLEAN, app_prefix \in AppPrefixes :
        LET global == get_cloud_session_storage(cloud_session_storage, available,
                                                db_pool, app_prefix)
        IN /\ probe.calls < MaxCalls
           /\ cloud_session_storage' = global
           /\ storage_methods' = global[1].storage_methods
           /\ probe' = [calls |-> probe.calls + 1,
                        args |-> <<db_pool, app_prefix>>,
                        first_args |-> IF probe.calls = 0 THEN <<db_pool, app_prefix>>
                                       ELSE probe.first_args,
                        result |-> global,
                        first_result |-> IF probe.calls = 0 THEN global
                                         ELSE probe.first_result]
           /\ UNCHANGED <<available, scopes, now, stx_cookie, legacy_cookies,
                          local_storage, cloud_user_sessions, session_state, next_id, last,
                          last_save, faulty_ops>>

NextSingleton == GetCloudSessionStorage

SpecSingleton == InitSingleton /\ [][NextSingleton]_vars

\* ------------------------------------------------------------ claims on _is_session_valid
ProbeDone == probe.result # None
ProbeHas(k) == k \in DOMAIN probe.session_data

\* C7: _is_session_valid(record) at instant t is True if and only if the
\* username is non-empty, signout is false, and expires_at is present and not
\* in the past relative to t; a record without expires_at is not valid.
C7_ValidIffPresentAndUnexpired ==
    ProbeDone =>
        probe.result[1] =
            (/\ Get(probe.session_data, "username", "") # ""
             /\ ~Get(probe.session_data, "signout", TRUE)
             /\ ProbeHas("expires_at")
             /\ WellFormedIso(probe.session_data["expires_at"])
             /\ probe.session_data["expires_at"] >= probe.t)

\* C8, as claimed: _is_session_valid(r) is False at every instant equal to or
\* later than r.expires_at.
C8_InvalidAtOrAfterExpiry ==
    (/\ ProbeDone
     /\ ProbeHas("expires_at")
     /\ WellFormedIso(probe.session_data["expires_at"])
     /\ probe.t >= probe.session_data["expires_at"])
        => probe.result[1] = FALSE

\* C8, amended: _is_session_valid(r) is False at every instant strictly later
\* than r.expires_at (at the instant equal to expires_at the record still passes).
C8_InvalidAfterExpiry ==
    (/\ ProbeDone
     /\ ProbeHas("expires_at")
     /\ WellFormedIso(probe.session_data["expires_at"])
     /\ probe.t > probe.session_data["expires_at"])
        => probe.result[1] = FALSE

\* A signed-in record with a username, rejected only because t is past expires_at.
C8_Witness ==
    /\ ProbeDone
    /\ Get(probe.session_data, "username", "") # ""
    /\ ~Get(probe.session_data, "signout", TRUE)
    /\ ProbeHas("expires_at")
    /\ WellFormedIso(probe.session_data["expires_at"])
    /\ probe.t > probe.session_data["expires_at"]
    /\ probe.result[1] = FALSE

\* ------------------------------------------------------------ claims on the store
SavedRec == last_save.rec[1]
Registry == Range(storage_methods)

\* The session ids generated before the n-th.
IssuedBefore(n) == {generate_session_id(u, k) : u \in Users, k \in 1..(n - 1)}

LoadAfterSave == last.op = "load" /\ last.after = "save"

\* ret is a record with the username, role and session_id of rec.
Returns(ret, rec) ==
    /\ ret # None
    /\ Get(ret[1], "username", "") = rec["username"]
    /\ Get(ret[1], "role", "") = rec["role"]
    /\ Get(ret[1], "session_id", "") = rec["session_id"]

\* The records the medium of a backend holds in the stores S at instant t.
HeldIn(S, method, t) ==
    CASE method = "stx_cookies" ->
            IF load_stx_cookies(S, t, FALSE) = None THEN {}
            ELSE {load_stx_cookies(S, t, FALSE)[1]}
      [] method = "legacy_cookies" ->
            IF load_legacy_cookies(S, FALSE) = None THEN {}
            ELSE {load_legacy_cookies(S, FALSE)[1]}
      [] method = "js_local_storage" ->
            IF load_js_localStorage(S, FALSE) = None THEN {}
            ELSE {load_js_localStorage(S, FALSE)[1]}
      [] method = "database" ->
            {JsonLoads(row.session_data) : row \in S.db}
      [] method = "session_state" ->
            IF load_session_state(S.ss, t) = None THEN {}
            ELSE {load_session_state(S.ss, t)[1]}

\* The records a backend's medium holds at this instant.
Held(method) == HeldIn(Stores, method, now)

\* The backends' contents after the step.
StoresNext ==
    [stx |-> stx_cookie', legacy |-> legacy_cookies', js |-> local_storage',
     db |-> cloud_user_sessions', ss |-> session_state']

\* The backends that stand before `method` in the registry.
Before(method) ==
    {storage_methods[i] : i \in {i \in 1..Len(storage_methods) :
        \E j \in (i + 1)..Len(storage_methods) : storage_methods[j] = method}}

\* st.session_state is blank: username, email and role empty, signout True,
\* no session_id.
Blank(ss) ==
    /\ Get(ss, "username", "?") = ""
    /\ Get(ss, "useremail", "?") = ""
    /\ Get(ss, "role", "?") = ""
    /\ Get(ss, "signout", FALSE) = TRUE
    /\ "session_id" \notin DOMAIN ss

\* A backend holds a record that fails validity / one that passes it (for the
\* database: in a row whose expires_at column is still ahead).
InvalidHeld(method) == \E r \in Held(method) : ~is_session_valid(r, now)
ValidHeld(method) ==
    IF method = "database"
    THEN \E row \in cloud_user_sessions :
            /\ row.expires_at > now
            /\ is_session_valid(JsonLoads(row.session_data), now)
    ELSE \E r \in Held(method) : is_session_valid(r, now)

\* C1: save_session(u, e, r) followed immediately by load_session returns a
\* record with username u, role r and the session_id that save generated,
\* which differs from every id an earlier save issued.
C1_SaveThenLoad ==
    LoadAfterSave =>
        /\ Returns(last.ret, SavedRec)
        /\ SavedRec["username"] = last_save.args[1]
        /\ SavedRec["role"] = last_save.args[3]
        /\ SavedRec["session_id"] \notin IssuedBefore(next_id)

\* C2: once save_session has stored a record in a durable backend and
\* st.session_state has been reset to empty, a load_session before the
\* record's expires_at still returns that record (stated for runs in which no
\* backend call has failed).
C2_LoadSurvivesReset ==
    [][(/\ session_state = EmptyDict
        /\ last_save.rec # None
        /\ faulty_ops = 0
        /\ now < SavedRec["expires_at"]
        /\ \E method \in Registry \cap Fallible :
              \E r \in Held(method) : Get(r, "session_id", "") = SavedRec["session_id"]
        /\ LoadSessionOp({}))
       => Returns(last'.ret, SavedRec)]_vars

\* st.session_state still holds the login of the last save_session.
ScopeHoldsLogin ==
    /\ Get(session_state, "session_id", "") = SavedRec["session_id"]
    /\ Get(session_state, "username", "") = SavedRec["username"]
    /\ ~Get(session_state, "signout", TRUE)

\* C3: after save_session("alice", ..., "Admin") at T0 and no later save, a
\* load_session before T0 + session_timeout returns a record with username
\* alice and signout false, and every load_session after T0 + session_timeout
\* returns None and leaves st.session_state with signout = True.
C3_LoadBeforeAndAfterTimeout ==
    [][(/\ last_save.rec # None
        /\ last_save.args[1] = "alice"
        /\ last_save.args[3] = "Admin"
        /\ \E F \in SUBSET (Fallible \cap Registry) : LoadSessionOp(F))
       => /\ (/\ now < SavedRec["timestamp"] + session_timeout
              /\ last_save.current
              /\ faulty_ops = 0
              /\ ScopeHoldsLogin)
                 => /\ last'.ret # None
                    /\ Get(last'.ret[1], "username", "") = "alice"
                    /\ Get(last'.ret[1], "signout", TRUE) = FALSE
          /\ now > SavedRec["timestamp"] + session_timeout
                 => /\ last'.ret = None
                    /\ Get(session_state', "signout", FALSE) = TRUE]_vars

LoadAfterClear == last.op = "load" /\ last.after \in {"clear", "clear_full"}

\* C4: after clear_session(u) an immediately following load_session returns
\* None, whichever backends held the record.
C4_ClearThenLoad == LoadAfterClear => last.ret = None

\* C5: when a backend earlier in the registry holds an expired or signed-out
\* record and a later backend holds a still-valid one, load_session returns a
\* valid record.
C5_FallsThroughOnInvalid ==
    [][(/\ \E i, j \in 1..Len(storage_methods) :
              /\ i < j
              /\ InvalidHeld(storage_methods[i])
              /\ ValidHeld(storage_methods[j])
        /\ LoadSessionOp({}))
       => /\ last'.ret # None
          /\ is_session_valid(last'.ret[1], now)]_vars

TwoSaves ==
    /\ last_save.before # None
    /\ last_save.before[1]["username"] = SavedRec["username"]

\* C6: two sequential saves for the same username produce two different
\* session_ids, and a load afterwards returns the second's record.
C6_SecondSaveWins ==
    (LoadAfterSave /\ TwoSaves) =>
        /\ last_save.before[1]["session_id"] # SavedRec["session_id"]
        /\ Returns(last.ret, SavedRec)

\* What one backend holds after a save_session of session_data in which the
\* backends of F failed: its own save applied to what it held, or what it held.
StoredAlone(method, session_data, F) ==
    IF method \notin Registry \/ method \in F THEN Stores
    ELSE CASE method = "stx_cookies" -> save_stx_cookies(Stores, session_data, now, FALSE).S
           [] method = "legacy_cookies" -> save_legacy_cookies(Stores, session_data, FALSE).S
           [] method = "js_local_storage" ->
                 save_js_localStorage(Stores, session_data, now, FALSE).S
           [] method = "database" ->
                 save_database(Stores, session_data, Stamp(now, next_id + 1), FALSE).S
           [] method = "session_state" ->
                 [Stores EXCEPT !.ss = save_session_state(session_state, session_data)]

\* C9: save_session calls every backend's save in registry order; a backend's
\* failure neither stops the later backends nor changes what the others store,
\* and save_session returns True exactly when some backend's save succeeded.
C9_SaveFansOut ==
    [][\A username \in Users, email \in Emails, role \in Roles,
          F \in SUBSET (Fallible \cap Registry) :
          (last'.op = "save" /\ Faulty(F) /\ SaveSessionOp(username, email, role, F)) =>
             LET session_data == last_save'.rec[1]
             IN /\ last'.attempted = storage_methods
                /\ stx_cookie' = StoredAlone("stx_cookies", session_data, F).stx
                /\ legacy_cookies' = StoredAlone("legacy_cookies", session_data, F).legacy
                /\ local_storage' = StoredAlone("js_local_storage", session_data, F).js
                /\ cloud_user_sessions' = StoredAlone("database", session_data, F).db
                /\ session_state' = StoredAlone("session_state", session_data, F).ss
                /\ last'.ok = (Registry \ F # {})]_vars

\* A save in which the stx cookie failed while the database and localStorage,
\* later in the registry, stored the new record.
C9_Witness ==
    /\ last.op = "save"
    /\ last.ok
    /\ ~last.full
    /\ last.attempted = storage_methods
    /\ {"stx_cookies", "js_local_storage", "database"} \subseteq Registry
    /\ \A r \in Held("stx_cookies") : Get(r, "session_id", "") # SavedRec["session_id"]
    /\ SavedRec \in Held("js_local_storage")
    /\ SavedRec \in Held("database")

\* C11: when load_session accepts a record from the database or from
\* session_state, it re-saves that record to every backend that stands before
\* the accepting one in the registry (the database included when the record
\* came from session_state), and a failing re-save leaves the result as loaded.
C11_ResavesToEarlierBackends ==
    [][\A F \in SUBSET (Fallible \cap Registry) :
          (/\ last'.op = "load"
           /\ last'.src \in {"database", "session_state"}
           /\ Faulty(F)
           /\ LoadSessionOp(F)) =>
             /\ \A method \in Before(last'.src) \ F :
                   last'.ret[1] \in HeldIn(StoresNext, method, now)
             /\ last'.ret = load_method(Stores, last'.src, now, F)]_vars

\* C12: if no backend yields a record that passes _is_session_valid,
\* load_session returns None and leaves st.session_state blank: username,
\* email and role empty, signout True, session_id removed.
C12_NoValidRecordBlanksScope ==
    [][\A F \in SUBSET (Fallible \cap Registry) :
          (/\ last'.op = "load"
           /\ Faulty(F)
           /\ LoadSessionOp(F)
           /\ \A method \in Registry :
                 \/ load_method(Stores, method, now, F) = None
                 \/ ~is_session_valid(load_method(Stores, method, now, F)[1], now))
          => /\ last'.ret = None
             /\ Blank(session_state')]_vars

\* A load that consulted several backends, found an invalid record and no
\* valid one, and left the scope blank.
C12_Witness ==
    /\ last.op = "load"
    /\ last.ret = None
    /\ Len(last.attempted) > 1
    /\ \E method \in Registry : InvalidHeld(method)
    /\ Blank(session_state)

\* What one backend holds after a clear_session(name) in which the backends of
\* F failed: its own clear applied to what it held, or what it held.
ClearedAlone(method, name, F) ==
    IF method \notin Registry \/ method \in F THEN Stores
    ELSE CASE method = "stx_cookies" -> clear_stx_cookies(Stores, FALSE).S
           [] method = "legacy_cookies" -> clear_legacy_cookies(Stores, FALSE).S
           [] method = "js_local_storage" -> clear_js_localStorage(Stores, FALSE).S
           [] method = "database" -> clear_database(Stores, name, FALSE).S
           [] method = "session_state" ->
                 [Stores EXCEPT !.ss = clear_session_state(session_state)]

\* C13: clear_session calls the clear of every backend in the registry whatever
\* the others returned, and on return st.session_state is blank (username,
\* email, role empty, signout True) even when every other clear failed.
C13_ClearFansOut ==
    [][\A username \in Users \cup {""}, F \in SUBSET (Fallible \cap Registry) :
          (last'.op = "clear" /\ Faulty(F) /\ ClearSessionOp(username, F)) =>
             LET name == IF username # "" THEN username
                         ELSE Get(session_state, "username", "")
             IN /\ last'.attempted = storage_methods
                /\ stx_cookie' = ClearedAlone("stx_cookies", name, F).stx
                /\ legacy_cookies' = ClearedAlone("legacy_cookies", name, F).legacy
                /\ local_storage' = ClearedAlone("js_local_storage", name, F).js
                /\ cloud_user_sessions' = ClearedAlone("database", name, F).db
                /\ Get(session_state', "username", "?") = ""
                /\ Get(session_state', "useremail", "?") = ""
                /\ Get(session_state', "role", "?") = ""
                /\ Get(session_state', "signout", FALSE) = TRUE]_vars

\* A clear_session in which the clear of both other backends failed: they still
\* hold the saved record, and the scope is blank.
C13_Witness ==
    /\ last.op = "clear"
    /\ ~last.full
    /\ last.attempted = storage_methods
    /\ Len(storage_methods) = 3
    /\ last_save.rec # None
    /\ \A method \in Registry \cap Fallible : SavedRec \in Held(method)
    /\ Blank(session_state)

\* C10: every save_session(u, e, r) leaves st.session_state with username u,
\* email e, role r, signout False and the new session_id, whatever the other
\* backends' saves returned.
C10_SaveUpdatesSessionState ==
    last.op = "save" =>
        /\ Get(session_state, "username", "") = last_save.args[1]
        /\ Get(session_state, "useremail", "") = last_save.args[2]
        /\ Get(session_state, "role", "") = last_save.args[3]
        /\ Get(session_state, "signout", TRUE) = FALSE
        /\ Get(session_state, "session_id", "") = generate_session_id(last_save.args[1], next_id)

\* A save in which some other backend failed, and the scope holds the login.
C10_Witness ==
    /\ last.op = "save"
    /\ ~last.full
    /\ Get(session_state, "username", "") = "alice"
    /\ Get(session_state, "signout", TRUE) = FALSE

\* C14: is_user_authenticated returns True and touches no backend when
\* st.session_state has a non-empty username and signout False; otherwise it
\* does what load_session does and returns True exactly when that load
\* returns a record.
C14_AuthQuickCheckElseLoad ==
    [][\A F \in SUBSET (Fallible \cap Registry) :
          (last'.op = "auth" /\ Faulty(F) /\ IsUserAuthenticatedOp(F)) =>
             IF Get(session_state, "username", "") # "" /\ ~Get(session_state, "signout", TRUE)
             THEN /\ last'.ok
                  /\ StoresNext = Stores
             ELSE /\ StoresNext = load_session(Stores, storage_methods, now, F).S
                  /\ last'.ok = (load_session(Stores, storage_methods, now, F).ret # None)]_vars

\* is_user_authenticated answered True from the scope alone while the stx
\* cookie, first in the registry, holds nothing: no load, no re-save.
C14_Witness ==
    /\ last.op = "auth"
    /\ last.ok
    /\ ~last.full
    /\ "stx_cookies" \in Registry
    /\ Held("stx_cookies") = {}

\* C15: with the registry exactly [database, session_state], a save_session
\* followed by load_session (the database answering both calls) returns the
\* saved record, taken from the database.
C15_DatabaseOnlySaveThenLoad ==
    [][(/\ last.op = "save"
        /\ last.full
        /\ storage_methods = <<"database", "session_state">>
        /\ last'.op = "load"
        /\ LoadSessionOp({}))
       => /\ last'.ret = last_save.rec
          /\ last'.src = "database"]_vars

\* The second save on a [database, session_state] registry, loaded back from
\* the database.
C15_Witness ==
    /\ LoadAfterSave
    /\ storage_methods = <<"database", "session_state">>
    /\ next_id = 2
    /\ Cardinality(cloud_user_sessions) = 2
    /\ last.src = "database"
    /\ last.ret = last_save.rec

\* C16: cleanup_expired_sessions deletes exactly the rows whose expires_at is
\* in the past, leaves every other row as it was in all columns, and touches
\* no other backend (a driver failure leaves the other backends alone too).
C16_CleanupDeletesExpiredRowsOnly ==
    [][\A F \in SUBSET ({"database"} \cap Registry) :
          (last'.op = "cleanup" /\ Faulty(F) /\ CleanupExpiredSessionsOp(F)) =>
             /\ F = {} =>
                   cloud_user_sessions' =
                       {row \in cloud_user_sessions : row.expires_at >= now}
             /\ stx_cookie' = stx_cookie
             /\ legacy_cookies' = legacy_cookies
             /\ local_storage' = local_storage
             /\ session_state' = session_state]_vars

\* A cleanup that deleted a row and kept another.
C16_Witness ==
    /\ last.op = "cleanup"
    /\ last.ok
    /\ cloud_user_sessions # {}
    /\ \A row \in cloud_user_sessions : row.expires_at >= now

\* C17: the registry is a subsequence of [stx_cookies, legacy_cookies,
\* js_local_storage, database, session_state] in that order, holds only
\* mediums found available, and ends with session_state, so it is never empty.
C17_RegistryShape ==
    /\ storage_methods =
          SelectSeq(AllMethods, LAMBDA m : m \in Range(storage_methods))
    /\ Range(storage_methods) \ {"session_state"} \subseteq available
    /\ Len(storage_methods) > 0
    /\ storage_methods[Len(storage_methods)] = "session_state"

\* A registry built with the stx cookie and localStorage unavailable, in use.
C17_Witness ==
    /\ available = {"legacy_cookies", "database"}
    /\ storage_methods = <<"legacy_cookies", "database", "session_state">>
    /\ last.op = "save"

\* C20: reading never renews expiration: a record returned by load_session, or
\* held by a backend load_session re-saves to, carries the expires_at that the
\* save_session which created its session_id assigned.
C20_LoadKeepsExpiry ==
    last_save.rec # None =>
        \A r \in (IF last.op = "load" /\ last.ret # None THEN {last.ret[1]} ELSE {})
                 \cup UNION {Held(method) :
                        method \in Registry \cap {"stx_cookies", "legacy_cookies",
                                                  "js_local_storage"}} :
            Get(r, "session_id", "") = SavedRec["session_id"]
                => Get(r, "expires_at", 0 - 1) = SavedRec["expires_at"]

\* A payload the store could not have written: it does not decode to a dict,
\* or the expires_at of its record does not parse.
MalformedRecord(session_data) ==
    "expires_at" \in DOMAIN session_data /\ ~WellFormedIso(session_data["expires_at"])

\* The stores with every backend that holds a malformed payload emptied.
Scrub(S) ==
    [stx |-> IF S.stx # None
                /\ (\/ ~B64JsonDecodable(S.stx[1].val)
                    \/ MalformedRecord(B64JsonDecode(S.stx[1].val)))
             THEN None ELSE S.stx,
     legacy |-> IF S.legacy["expires_at"] # None
                   /\ ~WellFormedIso(S.legacy["expires_at"][1])
                THEN [k \in SessionKeys |-> None] ELSE S.legacy,
     js |-> IF S.js # None
               /\ (\/ ~IsJsonObject(S.js[1].session)
                   \/ MalformedRecord(JsonLoads(S.js[1].session)))
            THEN None ELSE S.js,
     db |-> IF \E row \in S.db : MalformedRecord(JsonLoads(row.session_data))
            THEN {} ELSE S.db,
     ss |-> S.ss]

C19_AdapterRoundTrip ==
    (/\ "method" \in DOMAIN probe
     /\ ProbeDone
     /\ is_session_valid(probe.session_data, probe.t))
        => probe.result[1] = Some(probe.session_data)

\* C21: load_session consults the backends in registry order and stops at the
\* first whose record is valid: the backends read are the registry up to and
\* including the accepting one, and the whole registry when none is accepted.
C21_LoadStopsAtFirstValid ==
    last.op = "load" =>
        /\ Len(last.attempted) <= Len(storage_methods)
        /\ last.attempted = SubSeq(storage_methods, 1, Len(last.attempted))
        /\ IF last.ret # None
           THEN last.attempted[Len(last.attempted)] = last.src
           ELSE last.attempted = storage_methods

\* A load that fell through one backend, accepted the record of the next and
\* left the rest of the registry unread.
C21_Witness ==
    /\ last.op = "load"
    /\ last.ret # None
    /\ Len(last.attempted) = 2
    /\ Len(storage_methods) > 2
    /\ last.src = storage_methods[2]

\* The client-side backends of the registry.
ClientSide == Registry \cap {"stx_cookies", "legacy_cookies", "js_local_storage"}

\* The client-side backends that hold the record the last load_session
\* returned: those its re-save reached.
Resaved == {method \in ClientSide : last.ret[1] \in Held(method)}

\* C22: after load_session has accepted a record from the database or from
\* session_state and re-saved it to a client-side backend, the next
\* load_session returns a record with the same session_id from a re-saved
\* client-side backend, without reading the database.
C22_NextLoadHitsResaved ==
    [][(/\ last.op = "load"
        /\ last.src \in {"database", "session_state"}
        /\ Resaved # {}
        /\ last'.op = "load"
        /\ LoadSessionOp({}))
       => /\ last'.ret # None
          /\ Get(last'.ret[1], "session_id", "?") = Get(last.ret[1], "session_id", "")
          /\ last'.src \in Resaved
          /\ "database" \notin Range(last'.attempted)]_vars

\* The rows of users other than `name`.
RowsOfOthers(name) == {row \in cloud_user_sessions : row.username # name}

\* C23: on a database shared by the processes of different users, in any
\* interleaving of their save_session, clear_session and
\* cleanup_expired_sessions calls, a clear_session for u whose DELETE runs
\* deletes all and only the rows whose username is u, and no operation of one
\* user changes or removes an unexpired row of another user.
C23_SharedDatabaseIsolation ==
    [][\A u \in SharedUsers, F \in SUBSET {"database"} :
          /\ \A email \in Emails, role \in Roles :
                (last'.op = "save" /\ Faulty(F) /\ SharedSaveSessionOp(u, email, role, F))
                    => RowsOfOthers(u) \subseteq cloud_user_sessions'
          /\ \A username \in {u, ""} :
                (last'.op = "clear" /\ Faulty(F) /\ SharedClearSessionOp(u, username, F))
                    => LET name == IF username # "" THEN username
                                   ELSE Get(scopes[u], "username", "")
                       IN IF F = {} /\ name # ""
                          THEN cloud_user_sessions' = RowsOfOthers(name)
                          ELSE cloud_user_sessions' = cloud_user_sessions
          /\ (last'.op = "cleanup" /\ Faulty(F) /\ SharedCleanupOp(u, F))
                => /\ {row \in cloud_user_sessions : row.expires_at >= now}
                        \subseteq cloud_user_sessions'
                   /\ cloud_user_sessions' \subseteq cloud_user_sessions]_vars

\* alice's clear_session deleted her rows while bob's row stayed.
C23_Witness ==
    /\ "user" \in DOMAIN last
    /\ last.op = "clear"
    /\ last.user = "alice"
    /\ last.deleted > 0
    /\ \E row \in cloud_user_sessions : row.username = "bob"
    /\ \A row \in cloud_user_sessions : row.username # "alice"

\* No two rows of the table have the same session_id.
KeyedBySessionId ==
    \A a, b \in cloud_user_sessions : a.session_id = b.session_id => a = b

\* C24, as claimed: the table never holds two rows with the same session_id,
\* and replaying a save of the same record leaves the table in the state the
\* first save left.
C24_ReplayLeavesSameTable ==
    /\ KeyedBySessionId
    /\ ("once" \in DOMAIN probe /\ probe.once # None)
          => cloud_user_sessions = probe.once[1]

\* The rows without their last_accessed column.
WithoutLastAccessed(rows) ==
    {[col \in DOMAIN row \ {"last_accessed"} |-> row[col]] : row \in rows}

\* C24, amended: the table never holds two rows with the same session_id, and
\* replaying a save of the same record leaves the rows the first save left,
\* equal in every column except last_accessed; the rows of other session_ids
\* keep their last_accessed too.
C24_ReplayLeavesSameRows ==
    /\ KeyedBySessionId
    /\ ("once" \in DOMAIN probe /\ probe.once # None)
          => /\ WithoutLastAccessed(cloud_user_sessions) = WithoutLastAccessed(probe.once[1])
             /\ \A row \in probe.once[1] :
                   row.session_id # probe.session_data["session_id"]
                       => row \in cloud_user_sessions

\* A second successful _save_database of the same record: same rows, but the
\* table differs from what the first save left.
C24_Witness ==
    /\ "once" \in DOMAIN probe
    /\ probe.once # None
    /\ probe.calls > 1
    /\ probe.result = Some(TRUE)
    /\ Cardinality(cloud_user_sessions) > 1
    /\ cloud_user_sessions # probe.once[1]

\* C25: whenever the stx cookie slot holds a record, the cookie's expiration
\* attribute equals that record's expires_at, after save_session and after a
\* re-save by load_session.
C25_CookieExpiresWithRecord ==
    (/\ stx_cookie # None
     /\ B64JsonDecodable(stx_cookie[1].val)
     /\ "expires_at" \in DOMAIN B64JsonDecode(stx_cookie[1].val))
        => stx_cookie[1].expires_at = B64JsonDecode(stx_cookie[1].val)["expires_at"]

\* C26: session_state is always in the registry and its save and clear always
\* succeed, so every save_session and every clear_session attempts it and
\* returns True, also when every other backend fails.
C26_SaveAndClearReturnTrue ==
    last.op \in {"save", "clear"} =>
        /\ "session_state" \in Registry
        /\ "session_state" \in Range(last.attempted)
        /\ last.ok

\* A save_session on the full registry in which all four other backends
\* failed: none of them holds the record, and the call returned True.
C26_Witness ==
    /\ last.op = "save"
    /\ last.ok
    /\ Len(storage_methods) = 5
    /\ \A method \in Fallible : SavedRec \notin Held(method)

\* C27: is_user_authenticated never returns True at an instant later than the
\* expires_at assigned by the most recent save_session, however long
\* st.session_state has kept that session's fields.
C27_AuthNeverTrueAfterExpiry ==
    (last.op = "auth" /\ last.ok /\ last_save.rec # None)
        => now <= SavedRec["expires_at"]

\* C28: whenever load_session returns a record, on return st.session_state's
\* username, email, role and session_id equal those of the returned record
\* and its signout is False.
C28_LoadMirrorsRecordInScope ==
    (last.op = "load" /\ last.ret # None) =>
        /\ Get(session_state, "username", "") = Get(last.ret[1], "username", "?")
        /\ Get(session_state, "useremail", "") = Get(last.ret[1], "email", "?")
        /\ Get(session_state, "role", "") = Get(last.ret[1], "role", "?")
        /\ Get(session_state, "session_id", "") = Get(last.ret[1], "session_id", "?")
        /\ Get(session_state, "signout", TRUE) = FALSE

\* A load_session that found the record in a client-side backend and filled
\* the scope from it.
C28_Witness ==
    /\ last.op = "load"
    /\ last.ret # None
    /\ last.src \in ClientSide
    /\ Get(session_state, "session_id", "") = Get(last.ret[1], "session_id", "?")
    /\ Get(session_state, "username", "") = "alice"

\* C29: every database operation returns the connection it took from the
\* pool exactly once, on success and on every failure path.
C29_ConnectionReturnedOnce ==
    (/\ "fail_at" \in DOMAIN probe
     /\ ProbeDone
     /\ probe.result[1].taken)
        => probe.result[1].putconn_calls = 1

\* What a client-side backend's medium stores.
SlotOf(S, method) ==
    CASE method = "stx_cookies" -> S.stx
      [] method = "legacy_cookies" -> S.legacy
      [] method = "js_local_storage" -> S.js

\* A load_session or is_user_authenticated step in which the backends of F fail.
ReadingOp(F) ==
    /\ last'.op \in {"load", "auth"}
    /\ Faulty(F)
    /\ \/ last'.op = "load" /\ LoadSessionOp(F)
       \/ last'.op = "auth" /\ IsUserAuthenticatedOp(F)

\* C30, as claimed: load_session and is_user_authenticated never insert,
\* update or delete database rows and never remove a record from a persistent
\* backend: an expired or signed-out record met during a load stays in its
\* backend.
C30_InvalidRecordStays ==
    [][\A F \in SUBSET (Fallible \cap Registry) :
          ReadingOp(F) =>
             /\ cloud_user_sessions' = cloud_user_sessions
             /\ \A method \in ClientSide :
                   InvalidHeld(method)
                       => SlotOf(StoresNext, method) = SlotOf(Stores, method)]_vars

\* C30, amended: load_session and is_user_authenticated never insert, update
\* or delete database rows and never empty a persistent backend: a client-side
\* backend keeps what it stored, unless the record was accepted from the
\* database or session_state and the re-save replaced the backend's content
\* with that record.
C30_ReplacedOnlyByResave ==
    [][\A F \in SUBSET (Fallible \cap Registry) :
          ReadingOp(F) =>
             LET r == load_session(Stores, storage_methods, now, F)
             IN /\ cloud_user_sessions' = cloud_user_sessions
                /\ \A method \in ClientSide :
                      \/ SlotOf(StoresNext, method) = SlotOf(Stores, method)
                      \/ /\ r.src \in {"database", "session_state"}
                         /\ SlotOf(StoresNext, method) =
                               SlotOf(StoredAlone(method, r.ret[1], {}), method)]_vars

\* A load_session after the timeout that took the login from session_state
\* and re-saved it over the expired record of the legacy cookies, the database
\* still holding the expired row.
C30_Witness ==
    /\ last.op = "load"
    /\ last.src = "session_state"
    /\ {"legacy_cookies", "database"} \subseteq Registry
    /\ last_save.rec # None
    /\ last_save.full
    /\ last_save.current
    /\ now > SavedRec["expires_at"]
    /\ last.ret[1] \in Held("legacy_cookies")
    /\ SavedRec \in Held("database")

\* The position of a method in a sequence of methods.
IndexOf(methods, method) == CHOOSE i \in 1..Len(methods) : methods[i] = method

\* C31: clear_session called without a username deletes the database rows of
\* st.session_state's username, the database being cleared before
\* st.session_state is blanked; when st.session_state has no username either,
\* the rows are left unchanged and the database clear is not counted as a
\* success.
C31_ClearDefaultsToScopeUsername ==
    [][\A F \in SUBSET (Fallible \cap Registry) :
          (/\ last'.op = "clear"
           /\ "database" \in Registry
           /\ Faulty(F)
           /\ ClearSessionOp("", F)) =>
             LET name == Get(session_state, "username", "")
                 r == clear_session(Stores, storage_methods, "", F)
             IN /\ IndexOf(last'.attempted, "database")
                      < IndexOf(last'.attempted, "session_state")
                /\ Blank(session_state')
                /\ (name # "" /\ "database" \notin F)
                      => cloud_user_sessions' =
                            {row \in cloud_user_sessions : row.username # name}
                /\ name = ""
                      => /\ cloud_user_sessions' = cloud_user_sessions
                         /\ r.success_count
                               = Cardinality(Registry \ (F \cup {"database"}))]_vars

\* A clear_session() that deleted alice's row, the username taken from the
\* scope it then blanked, and left the other user's row.
C31_Witness ==
    /\ last.op = "clear"
    /\ last.full
    /\ "database" \in Registry
    /\ cloud_user_sessions = {OtherUsersRow}
    /\ Blank(session_state)

\* C32: get_cloud_session_storage creates the store once: every later call
\* returns the instance the first call built, whatever db_pool and app_prefix
\* it is given, so the registry is the one fixed at the first construction (a
\* db_pool supplied only on a later call adds no database backend).
C32_StoreCreatedOnce ==
    ("first_args" \in DOMAIN probe /\ probe.calls > 0) =>
        /\ probe.result = probe.first_result
        /\ cloud_session_storage = probe.first_result
        /\ probe.result[1] = CloudSessionStorage(available, probe.first_args[1],
                                                 probe.first_args[2], 1)
        /\ storage_methods =
              init_storage_mechanisms(
                  available \cup (IF probe.first_args[1] THEN {"database"} ELSE {}))

\* A later call that supplied a db_pool and another prefix after a first call
\* without a pool: the instance returned has no database backend.
C32_Witness ==
    /\ "first_args" \in DOMAIN probe
    /\ probe.calls > 1
    /\ probe.first_args = <<FALSE, "iconnet_app">>
    /\ probe.args = <<TRUE, "other_app">>
    /\ probe.result # None
    /\ "database" \notin Range(probe.result[1].storage_methods)
    /\ probe.result[1].app_prefix = "iconnet_app"

====
